---- MODULE Spec2Model ----
(***************************************************************************)
(* Task board: the Home component (src/src/app/page.js) holds the task     *)
(* list, the pending input and the next-id counter in React state, mirrors *)
(* the list into localStorage['tasks'], and hands the list and its delete  *)
(* handler to TaskList (src/src/components/TaskList.js).                   *)
(*                                                                         *)
(* Every event handler runs to completion and React re-renders before the  *)
(* next event, so each handler is one atomic action over the state of the  *)
(* latest render.                                                          *)
(***************************************************************************)
EXTENDS Integers, Sequences, FiniteSets, TLC

VARIABLES storage,     \* localStorage slot 'tasks': [present, text]
          tasks,       \* useState([])  : sequence of task records
          newTask,     \* useState('')  : pending input
          nextId,      \* useState(1)   : next id counter
          pc,          \* "mounted" (effect pending), "ready", "crashed"
          last,        \* history: the last handler run and the state it ran in
          sessionIds,  \* history: ids present or assigned since this page load
          everIds,     \* history: ids present or assigned since the first load
          reloads      \* number of page reloads so far

vars == <<storage, tasks, newTask, nextId, pc, last, sessionIds, everIds, reloads>>

(***************************************************************************)
(* Bounds                                                                  *)
(***************************************************************************)
MaxLen == 3          \* longest task list the Add button is pressed on
MaxSeedLen == 2      \* longest list found in storage at the first load
MaxNextId == 8       \* Add is not pressed once the counter exceeds this
MaxReloads == 1      \* page reloads explored

SeedIds == {1, 3, 7}
Titles == {"", "Buy milk"}
DeleteArgs == 0 .. MaxLen

SeedTitle(id) == IF id = 1 THEN "A" ELSE "B"

(***************************************************************************)
(* Task records and helpers                                                *)
(***************************************************************************)
Ids(list) == {list[i].id : i \in DOMAIN list}

UniqueIds(list) == \A i, j \in DOMAIN list : list[i].id = list[j].id => i = j

\* the greatest of a finite set of naturals, 0 for the empty set
MaxOf(S) == IF S = {} THEN 0 ELSE CHOOSE m \in S : \A x \in S : x <= m

\* the list without the records whose id is the given one (reference
\* semantics of delete-by-id, used by the properties only)
WithoutId(list, id) == SelectSeq(list, LAMBDA r : r.id # id)

(***************************************************************************)
(* JSON text of the slot, as a sequence of tokens                          *)
(***************************************************************************)
NoItem == [present |-> FALSE, text |-> <<>>]

Item(text) == [present |-> TRUE, text |-> text]

\* decimal numerals of the ids the model can meet
Numerals == {ToString(n) : n \in 0 .. (MaxNextId + 1)}

NumeralValue(tok) == CHOOSE n \in 0 .. (MaxNextId + 1) : ToString(n) = tok

\* JSON.stringify of one task object: keys in creation order id, title,
\* description
StringifyTask(task) ==
    <<"{", "id", ToString(task.id), "title", task.title,
      "description", task.description, "}">>

TaskTokens == 8

RECURSIVE StringifyTasks(_)
StringifyTasks(list) ==
    IF list = <<>> THEN <<>>
    ELSE IF Len(list) = 1 THEN StringifyTask(list[1])
    ELSE StringifyTask(list[1]) \o <<",">> \o StringifyTasks(Tail(list))

\* JSON.stringify(updatedTasks)
JSONstringify(list) == <<"[">> \o StringifyTasks(list) \o <<"]">>

\* one task object at text[from .. from + 7]
IsTaskAt(text, from) ==
    /\ text[from] = "{"
    /\ text[from + 1] = "id"
    /\ text[from + 2] \in Numerals
    /\ text[from + 3] = "title"
    /\ text[from + 5] = "description"
    /\ text[from + 7] = "}"

TaskAt(text, from) ==
    [id |-> NumeralValue(text[from + 2]),
     title |-> text[from + 4],
     description |-> text[from + 6]]

\* the text is '[' task (',' task)* ']' or '[' ']'
IsArrayText(text) ==
    /\ Len(text) >= 2
    /\ text[1] = "["
    /\ text[Len(text)] = "]"
    /\ \/ Len(text) = 2
       \/ /\ (Len(text) - 1) % (TaskTokens + 1) = 0
          /\ \A k \in 0 .. ((Len(text) - 1) \div (TaskTokens + 1) - 1) :
                /\ IsTaskAt(text, 2 + k * (TaskTokens + 1))
                /\ text[1 + (k + 1) * (TaskTokens + 1)]
                     = (IF 1 + (k + 1) * (TaskTokens + 1) = Len(text)
                        THEN "]" ELSE ",")

ArrayOf(text) ==
    [k \in 1 .. ((Len(text) - 1) \div (TaskTokens + 1)) |->
        TaskAt(text, 2 + (k - 1) * (TaskTokens + 1))]

\* JSON.parse: a syntax error, null, an object, or an array of tasks
JSONparse(text) ==
    IF text = <<"null">> THEN [ok |-> TRUE, kind |-> "null", list |-> <<>>]
    ELSE IF text = <<"{", "}">> THEN [ok |-> TRUE, kind |-> "object", list |-> <<>>]
    ELSE IF IsArrayText(text) THEN [ok |-> TRUE, kind |-> "array", list |-> ArrayOf(text)]
    ELSE [ok |-> FALSE, kind |-> "SyntaxError", list |-> <<>>]

\* localStorage.getItem('tasks') handed to JSON.parse: a missing item is
\* null, which JSON.parse reads as the text null
getItem(st) == IF st.present THEN st.text ELSE <<"null">>

\* localStorage.setItem('tasks', text)
setItem(text) == Item(text)

(***************************************************************************)
(* What storage may hold at the first load                                 *)
(***************************************************************************)
SeedTask(id) == [id |-> id, title |-> SeedTitle(id), description |-> ""]

SeedLists ==
    {[i \in 1 .. Len(q) |-> SeedTask(q[i])] :
        q \in {p \in UNION {[1 .. n -> SeedIds] : n \in 0 .. MaxSeedLen} :
                  \A i, j \in DOMAIN p : p[i] = p[j] => i = j}}

CorruptTexts == {<<"[", "{">>, <<"{", "}">>, <<"null">>}

InitialStorage ==
    {NoItem} \cup {Item(t) : t \in CorruptTexts}
             \cup {Item(JSONstringify(l)) : l \in SeedLists}

(***************************************************************************)
(* Home: state after construction                                          *)
(***************************************************************************)
NoOp == [op |-> "none", arg |-> 0, rep |-> FALSE,
         tasks |-> <<>>, newTask |-> "", nextId |-> 1, storage |-> NoItem]

\* the record of a handler run: its name, its argument, whether it repeats
\* the previous run, and the state it started in
Ran(op, arg) ==
    [op |-> op, arg |-> arg,
     rep |-> (last.op = op /\ last.arg = arg),
     tasks |-> tasks, newTask |-> newTask, nextId |-> nextId,
     storage |-> storage]

Init ==
    /\ storage \in InitialStorage
    /\ tasks = <<>>
    /\ newTask = ""
    /\ nextId = 1
    /\ pc = "mounted"
    /\ last = NoOp
    /\ sessionIds = {}
    /\ everIds = {}
    /\ reloads = 0

(***************************************************************************)
(* useEffect(..., []) : hydrate from localStorage                          *)
(***************************************************************************)
\* variant: the reducer returns task.id, so the result is the last id
reduceMax_last(list, max) == IF list = <<>> THEN max ELSE list[Len(list)].id

\* savedTasks.reduce((max, task) => Math.max(max, task.id), 0)
RECURSIVE reduceMax(_, _)
reduceMax(list, max) ==
    IF list = <<>> THEN max
    ELSE reduceMax(Tail(list), IF list[1].id > max THEN list[1].id ELSE max)

\* variant: the counter is seeded from the number of saved tasks
HydratedNextId_count(savedTasks) == Len(savedTasks) + 1

\* variant: the counter is seeded with the greatest saved id itself
HydratedNextId_noInc(savedTasks) == reduceMax(savedTasks, 0)

\* setNextId(maxId + 1)
HydratedNextId(savedTasks) == reduceMax(savedTasks, 0) + 1

\* variant: [] || JSON.parse(...) : the empty array is always taken
OrEmpty_swapped(parsed) == <<>>

\* JSON.parse(...) || [] : a falsy value is replaced by the empty array
OrEmpty(parsed) == IF parsed.kind = "null" THEN <<>> ELSE parsed.list

\* the effect throws: JSON.parse raises SyntaxError on unparseable text, and
\* a parsed value that is not an array has no reduce (TypeError)
HydrateThrows(st) ==
    \/ ~JSONparse(getItem(st)).ok
    \/ JSONparse(getItem(st)).kind = "object"

Hydrate ==
    /\ pc = "mounted"
    /\ last' = Ran("hydrate", 0)
    /\ IF HydrateThrows(storage)
       THEN /\ pc' = "crashed"
            /\ UNCHANGED <<tasks, nextId, sessionIds, everIds>>
       ELSE LET savedTasks == OrEmpty(JSONparse(getItem(storage))) IN
            /\ tasks' = savedTasks
            /\ nextId' = HydratedNextId(savedTasks)
            /\ pc' = "ready"
            /\ sessionIds' = Ids(savedTasks)
            /\ everIds' = everIds \cup Ids(savedTasks)
    /\ UNCHANGED <<storage, newTask, reloads>>

(***************************************************************************)
(* input onChange: setNewTesk(e.target.value)                              *)
(***************************************************************************)
onChange(value) ==
    /\ pc = "ready"
    /\ value # newTask
    /\ newTask' = value
    /\ last' = Ran("change", 0)
    /\ UNCHANGED <<storage, tasks, nextId, pc, sessionIds, everIds, reloads>>

(***************************************************************************)
(* addTask                                                                 *)
(***************************************************************************)
newTaskObj(id, title) == [id |-> id, title |-> title, description |-> ""]

\* variant: [newTaskObj, ...tasks]
updatedTasks_prepend(list, obj) == <<obj>> \o list

\* variant: a task whose title is already in the list is not added
updatedTasks_dedupe(list, obj) ==
    IF \E i \in DOMAIN list : list[i].title = obj.title
    THEN list ELSE Append(list, obj)

\* variant: the new task overwrites the last record instead of following it
updatedTasks_replaceLast(list, obj) ==
    IF list = <<>> THEN <<obj>> ELSE SubSeq(list, 1, Len(list) - 1) \o <<obj>>

\* [...tasks, newTaskObj]
updatedTasks(list, obj) == Append(list, obj)

\* variant: the counter is not advanced
AddedNextId_same(id) == id

\* setNextId(nextId + 1)
AddedNextId(id) == id + 1

addTask ==
    /\ pc = "ready"
    /\ Len(tasks) < MaxLen
    /\ nextId <= MaxNextId
    /\ LET updated == updatedTasks(tasks, newTaskObj(nextId, newTask)) IN
         /\ tasks' = updated
         /\ storage' = setItem(JSONstringify(updated))
    /\ newTask' = ""
    /\ nextId' = AddedNextId(nextId)
    /\ last' = Ran("add", nextId)
    /\ sessionIds' = sessionIds \cup {nextId}
    /\ everIds' = everIds \cup {nextId}
    /\ UNCHANGED <<pc, reloads>>

(***************************************************************************)
(* handleDelete                                                            *)
(***************************************************************************)
\* tasks.filter((_, i) => i !== index) : i is the 0-based array position
RECURSIVE filterFrom(_, _, _)
filterFrom(list, i, index) ==
    IF i >= Len(list) THEN <<>>
    ELSE (IF i # index THEN <<list[i + 1]>> ELSE <<>>)
            \o filterFrom(list, i + 1, index)

\* variant: tasks.filter(...).reverse(), the kept records newest first
filterIndex_reversed(list, index) ==
    LET kept == filterFrom(list, 0, index) IN
    [k \in 1 .. Len(kept) |-> kept[Len(kept) + 1 - k]]

\* variant: tasks.slice(0, index), everything from the position on is dropped
filterIndex_truncate(list, index) ==
    IF index >= Len(list) THEN list ELSE SubSeq(list, 1, index)

filterIndex(list, index) == filterFrom(list, 0, index)

\* variant: the slot is written only when a record was removed
DeleteStored_ifChanged(st, list, newTasks) ==
    IF newTasks = list THEN st ELSE setItem(JSONstringify(newTasks))

\* localStorage.setItem('tasks', JSON.stringify(newTasks))
DeleteStored(st, list, newTasks) == setItem(JSONstringify(newTasks))

\* variant: the handler also resets the input, as addTask does
handleDelete_clearsInput(index) ==
    /\ pc = "ready"
    /\ LET newTasks == filterIndex(tasks, index) IN
         /\ tasks' = newTasks
         /\ storage' = DeleteStored(storage, tasks, newTasks)
    /\ newTask' = ""
    /\ last' = Ran("delete", index)
    /\ UNCHANGED <<nextId, pc, sessionIds, everIds, reloads>>

handleDelete(index) ==
    /\ pc = "ready"
    /\ LET newTasks == filterIndex(tasks, index) IN
         /\ tasks' = newTasks
         /\ storage' = DeleteStored(storage, tasks, newTasks)
    /\ last' = Ran("delete", index)
    /\ UNCHANGED <<newTask, nextId, pc, sessionIds, everIds, reloads>>

\* TaskList: the Delete button of a displayed row calls onDelete(task.id)
onDeleteClick ==
    \E row \in DOMAIN tasks : handleDelete(tasks[row].id)

(***************************************************************************)
(* Page reload: Home is constructed again over the same localStorage       *)
(***************************************************************************)
Reload ==
    /\ pc \in {"ready", "crashed"}
    /\ reloads < MaxReloads
    /\ reloads' = reloads + 1
    /\ tasks' = <<>>
    /\ newTask' = ""
    /\ nextId' = 1
    /\ pc' = "mounted"
    /\ sessionIds' = {}
    /\ last' = Ran("reload", 0)
    /\ UNCHANGED <<storage, everIds>>

(***************************************************************************)
(* Specifications                                                          *)
(***************************************************************************)
\* the page as the user drives it
Next ==
    \/ Hydrate
    \/ \E value \in Titles : onChange(value)
    \/ addTask
    \/ onDeleteClick
    \/ Reload

Spec == Init /\ [][Next]_vars

\* one page session of the state store driven through its operations:
\* handleDelete with any argument
NextApi ==
    \/ Hydrate
    \/ \E value \in Titles : onChange(value)
    \/ addTask
    \/ \E index \in DeleteArgs : handleDelete(index)

SpecApi == Init /\ [][NextApi]_vars

(***************************************************************************)
(* Properties                                                              *)
(***************************************************************************)

\* C1: a Delete click on the row of task id removes exactly the record whose
\* id is id and keeps every other record, in order.
C1_DeleteRemovesThatRecord ==
    (last.op = "delete" /\ last.arg \in Ids(last.tasks))
        => tasks = WithoutId(last.tasks, last.arg)

\* C2: handleDelete with an id that no record carries leaves the list as it
\* was and raises no error.
C2_DeleteUnknownIdIsNoOp ==
    (last.op = "delete" /\ last.arg \notin Ids(last.tasks))
        => (tasks = last.tasks /\ pc = "ready")

\* C3: a second delete of the same id, right after the first, changes
\* nothing in the list.
C3_DeleteIdempotent ==
    (last.op = "delete" /\ last.rep) => tasks = last.tasks

\* C4: after hydration no two records of the list have the same id.
C4_UniqueIds == pc = "ready" => UniqueIds(tasks)

C4_Witness ==
    /\ last.op = "add"
    /\ Len(tasks) = MaxLen
    /\ sessionIds \ Ids(tasks) # {}

\* C5 (as stated): addTask never assigns an id that an earlier addTask
\* assigned or that was ever in the list, page reloads included.
C5_NeverReusedAcrossReloads == [][addTask => nextId \notin everIds]_vars

\* C5 (amended): within one page session addTask never assigns an id that
\* was in the list at hydration or that addTask assigned since, even after
\* the record carrying it was deleted.
C5_NeverReusedInSession == [][addTask => nextId \notin sessionIds]_vars

C5_Witness ==
    /\ last.op = "add"
    /\ reloads >= 1
    /\ sessionIds \ Ids(tasks) # {}
    /\ Len(tasks) >= 2

\* C6: after hydration the counter is greater than every id in the list, and
\* the record addTask creates has an id greater than every id already there.
C6_CounterAboveIds ==
    /\ pc = "ready" => \A i \in DOMAIN tasks : tasks[i].id < nextId
    /\ last.op = "add" =>
          \A i \in DOMAIN last.tasks : last.tasks[i].id < tasks[Len(tasks)].id

C6_Witness ==
    /\ last.op = "add"
    /\ Len(last.tasks) >= 2
    /\ \E i \in DOMAIN last.tasks : last.tasks[i].id > Len(last.tasks)

\* the slot holds the serialized array of some list of task records
HoldsTaskArray(st) == st.present /\ IsArrayText(st.text)

\* C7: hydrating from a missing slot or from data that is not a parseable
\* array of task records ends with the empty list, counter 1 and no error.
C7_CorruptHydratesEmpty ==
    (last.op = "hydrate" /\ ~HoldsTaskArray(last.storage))
        => (tasks = <<>> /\ nextId = 1 /\ pc = "ready")

\* C8: hydrating from a persisted list installs that list and sets the
\* counter to 1 + the greatest id in it (1 for the empty list).
C8_HydrateInstallsListAndCounter ==
    (last.op = "hydrate" /\ HoldsTaskArray(last.storage))
        => /\ pc = "ready"
           /\ JSONstringify(tasks) = last.storage.text
           /\ nextId = 1 + MaxOf(Ids(tasks))

C8_Witness ==
    /\ last.op = "hydrate"
    /\ Len(tasks) = 2
    /\ tasks[1].id = 3
    /\ tasks[2].id = 7
    /\ nextId = 8

\* C9: after every addTask and every handleDelete the slot holds the
\* serialization of the in-memory list, also when the delete removed nothing.
C9_StorageMirrorsTasks ==
    last.op \in {"add", "delete"}
        => /\ storage = Item(JSONstringify(tasks))
           /\ JSONparse(getItem(storage)).kind = "array"
           /\ JSONparse(getItem(storage)).list = tasks

C9_Witness ==
    /\ last.op = "delete"
    /\ tasks = last.tasks
    /\ ~last.storage.present
    /\ storage = Item(<<"[", "]">>)

\* C10: addTask with pending input t and counter c appends the one record
\* {id: c, title: t, description: ""} to the list, sets the counter to c + 1
\* and clears the pending input.
C10_AddAppendsRecord ==
    last.op = "add"
        => /\ tasks = last.tasks \o
                 <<[id |-> last.nextId, title |-> last.newTask, description |-> ""]>>
           /\ nextId = last.nextId + 1
           /\ newTask = ""

C10_Witness ==
    /\ last.op = "add"
    /\ last.tasks = <<>>
    /\ last.nextId = 1
    /\ tasks = <<[id |-> 1, title |-> "Buy milk", description |-> ""]>>
    /\ nextId = 2
    /\ newTask = ""

\* a further add, onto a list that already has records
C10_WitnessAppend ==
    /\ last.op = "add"
    /\ Len(last.tasks) >= 2
    /\ last.newTask # ""

\* the records of a list, as a set
Records(list) == {list[i] : i \in DOMAIN list}

\* C11: addTask is never rejected: whatever the pending title, the empty
\* string and a title already in the list included, it appends exactly one
\* record carrying that title; a record with the same title that was already
\* there differs from the new one by its id only.
C11_AddNeverRejected ==
    last.op = "add"
        => /\ Len(tasks) = Len(last.tasks) + 1
           /\ SubSeq(tasks, 1, Len(last.tasks)) = last.tasks
           /\ tasks[Len(tasks)].title = last.newTask
           /\ \A i \in DOMAIN last.tasks :
                 tasks[i].title = tasks[Len(tasks)].title
                    => /\ tasks[i].id # tasks[Len(tasks)].id
                       /\ tasks[i].description = tasks[Len(tasks)].description

\* "" added first, then "Buy milk" twice in a row
C11_Witness ==
    /\ last.op = "add"
    /\ Len(tasks) = 3
    /\ tasks[1].title = ""
    /\ tasks[2].title = "Buy milk"
    /\ tasks[3].title = "Buy milk"
    /\ tasks[2].id # tasks[3].id

\* strictly increasing ids
Increasing(list) ==
    \A i, j \in DOMAIN list : i < j => list[i].id < list[j].id

\* the records common to both lists come in the same order in both
SameOrder(old, new) ==
    SelectSeq(old, LAMBDA r : r \in Records(new))
        = SelectSeq(new, LAMBDA r : r \in Records(old))

\* C12: within a page session every step keeps the relative order of the
\* records it keeps, addTask puts the new record last, and a list in
\* increasing id order stays in increasing id order.
C12_InsertionOrder ==
    [][(pc = "ready" /\ pc' = "ready")
          => /\ SameOrder(tasks, tasks')
             /\ addTask => tasks'[Len(tasks')].id = nextId
             /\ Increasing(tasks) => Increasing(tasks')]_vars

\* a delete from the middle of a three-record list
C12_Witness ==
    /\ last.op = "delete"
    /\ Len(last.tasks) = 3
    /\ tasks = <<last.tasks[1], last.tasks[3]>>

\* C13 (as stated): after hydration the slot is as it was and saving the
\* loaded list would write the value already stored.
C13_SaveLoadIdentical ==
    (last.op = "hydrate" /\ pc = "ready")
        => /\ storage = last.storage
           /\ setItem(JSONstringify(tasks)) = storage

\* C13 (amended): hydration never writes the slot, and when the slot holds a
\* list the program saved, saving the loaded list would write the same text.
C13_SaveLoadIdenticalForSavedList ==
    last.op = "hydrate"
        => /\ storage = last.storage
           /\ HoldsTaskArray(storage)
                 => (pc = "ready" /\ setItem(JSONstringify(tasks)) = storage)

\* a reload of a list the page itself saved
C13_Witness ==
    /\ last.op = "hydrate"
    /\ reloads >= 1
    /\ Len(tasks) >= 2
    /\ sessionIds = Ids(tasks)

\* C14: within a page session a record that stays in the list keeps its
\* title and description, and neither addTask nor an input edit removes a
\* record.
C14_RecordsImmutable ==
    [][(pc = "ready" /\ pc' = "ready")
          => /\ \A i \in DOMAIN tasks : \A j \in DOMAIN tasks' :
                   tasks'[j].id = tasks[i].id => tasks'[j] = tasks[i]
             /\ (addTask \/ \E value \in Titles : onChange(value))
                   => Records(tasks) \subseteq Records(tasks')]_vars

\* records survive a delete of another record, an add and an input edit
C14_Witness ==
    /\ last.op = "change"
    /\ Len(tasks) >= 2
    /\ sessionIds \ Ids(tasks) # {}
    /\ \E i \in DOMAIN tasks : tasks[i].id = nextId - 1

\* C15: a list holding a single record is emptied by the Delete button of
\* that record (the last step of emptying any list by Delete clicks).
C15_SingleRecordCanBeDeleted ==
    (last.op = "delete" /\ Len(last.tasks) = 1) => tasks = <<>>

\* C16: one handleDelete call removes at most one record, whatever its
\* argument.
C16_DeleteRemovesAtMostOne ==
    last.op = "delete"
        => /\ Len(tasks) \in {Len(last.tasks), Len(last.tasks) - 1}
           /\ Records(tasks) \subseteq Records(last.tasks)

C16_Witness ==
    /\ last.op = "delete"
    /\ last.arg = 0
    /\ Len(last.tasks) = MaxLen
    /\ Len(tasks) = MaxLen - 1

\* C17: handleDelete leaves the counter and the pending input as they were;
\* an input edit leaves the list, the counter and the slot as they were.
C17_Frame ==
    /\ last.op = "delete"
          => (nextId = last.nextId /\ newTask = last.newTask)
    /\ last.op = "change"
          => (tasks = last.tasks /\ nextId = last.nextId
                /\ storage = last.storage)

C17_Witness ==
    /\ last.op = "delete"
    /\ newTask # ""
    /\ Len(tasks) < Len(last.tasks)
    /\ nextId > 2

\* an input edit over a non-empty list
C17_WitnessEdit ==
    /\ last.op = "change"
    /\ newTask # last.newTask
    /\ tasks # <<>>

====
